---- MODULE Spec2Model ----
(***************************************************************************)
(* Move generation of chessington (chessington/engine/pieces.py).          *)
(*                                                                         *)
(* A board holds piece references; a piece is asked for its moves with     *)
(* get_available_moves(board) and relocated with move_to(board, square).   *)
(* The scenario is the one of tests/test_pieces.py: a piece of any kind is *)
(* constructed and placed, Pawns of either player are placed around it,    *)
(* and the first piece is queried and moved.                               *)
(***************************************************************************)
EXTENDS Integers, Sequences, FiniteSets

VARIABLES
    board_size,   \* Board.board_size
    board,        \* Board contents: on-board square -> piece reference or None
    pieces,       \* the constructed Piece objects: reference -> its attributes
    op,           \* the call that was made last
    ret,          \* what that call returned (a list of squares, or nothing)
    lookups       \* the squares that call passed to board.get_piece, in order

vars == <<board_size, board, pieces, op, ret, lookups>>

(***************************** bounds **************************************)
\* pieces placed around the first one
MaxObstructions == 2

(***************************** data ****************************************)
\* Board.empty() of the tests is the standard 8 x 8 board
StdSize == 8

\* the values of board_size explored: a small board, on which every occupancy
\* by the first piece and its obstructions is reached, and the standard board,
\* on which the first piece stands alone
BoardSizes == {3, StdSize}

WHITE == "WHITE"
BLACK == "BLACK"
Player == {WHITE, BLACK}

Kinds == {"Pawn", "Knight", "Bishop", "Rook", "Queen", "King"}

\* a square holding no piece (Python's None); piece references are 1, 2, ...
None == 0

\* Square.at(row, col)
At(row, col) == <<row, col>>
Row(sq) == sq[1]
Col(sq) == sq[2]

\* the squares a board of side n stores
SquaresOf(n) == (0 .. n - 1) \X (0 .. n - 1)

\* Piece.__init__
NewPiece(kind, player) == [kind |-> kind, player |-> player, has_moved |-> FALSE]

(***************************** Board (collaborator) ***********************)
\* an off-board lookup is outside the Board's contract; it finds no piece here
get_piece(square) == IF square \in DOMAIN board THEN board[square] ELSE None

find_piece(piece) == CHOOSE sq \in DOMAIN board : board[sq] = piece

\* relocates the occupant of from_square, overwriting the occupant of to_square
move_piece(from_square, to_square) ==
    [board EXCEPT ![from_square] = None, ![to_square] = board[from_square]]

set_piece(square, piece) == [board EXCEPT ![square] = piece]

(***************************** Piece helpers *******************************)
\* mutant: the upper bounds off by one
inside_board_off_by_one(square) ==
    LET col == Col(square)
        row == Row(square)
        size == board_size
    IN  row <= size /\ row >= 0 /\ col <= size /\ col >= 0

inside_board(square) ==
    LET col == Col(square)
        row == Row(square)
        size == board_size
    IN  row < size /\ row >= 0 /\ col < size /\ col >= 0

\* mutant: any occupant counts as an enemy
is_enemy_any_piece(self, square) == get_piece(square) # None

is_enemy(self, square) ==
    get_piece(square) # None /\ pieces[get_piece(square)].player # pieces[self].player

can_move(self, sq) ==
    inside_board(sq) /\ (get_piece(sq) = None \/ is_enemy(self, sq))

(***************************** mutants of the generators *******************)
\* mutant: the diagonal captures are not gated behind the forward square
Pawn_captures_ungated(self) ==
    LET current_square == find_piece(self)
        row == Row(current_square)
        col == Col(current_square)
        row_dir == IF pieces[self].player = WHITE THEN 1 ELSE -1
        fwd == At(row + row_dir, col)
        right == At(row + row_dir, col + 1)
        left == At(row + row_dir, col - 1)
        two == At(row + 2 * row_dir, col)
        open == inside_board(fwd) /\ get_piece(fwd) = None
    IN  (IF open THEN <<fwd>> ELSE <<>>)
        \o (IF inside_board(right) /\ is_enemy(self, right) THEN <<right>> ELSE <<>>)
        \o (IF inside_board(left) /\ is_enemy(self, left) THEN <<left>> ELSE <<>>)
        \o (IF open /\ pieces[self].has_moved = FALSE
                 /\ inside_board(two) /\ get_piece(two) = None
            THEN <<two>> ELSE <<>>)

\* mutant: the two-step move does not look at has_moved
Pawn_two_step_always(self) ==
    LET current_square == find_piece(self)
        row == Row(current_square)
        col == Col(current_square)
        row_dir == IF pieces[self].player = WHITE THEN 1 ELSE -1
        fwd == At(row + row_dir, col)
        right == At(row + row_dir, col + 1)
        left == At(row + row_dir, col - 1)
        two == At(row + 2 * row_dir, col)
    IN  IF inside_board(fwd) /\ get_piece(fwd) = None
        THEN <<fwd>>
             \o (IF inside_board(right) /\ is_enemy(self, right) THEN <<right>> ELSE <<>>)
             \o (IF inside_board(left) /\ is_enemy(self, left) THEN <<left>> ELSE <<>>)
             \o (IF inside_board(two) /\ get_piece(two) = None THEN <<two>> ELSE <<>>)
        ELSE <<>>

\* mutant: the last offset repeats the one before it
Knight_y_typo == <<1, -1, 2, -2, 2, -2, -1, -1>>

\* mutant: the king never steps back
King_change_short == <<0, 1>>

(***************************** Pawn ****************************************)
Pawn_get_available_moves(self) ==
    LET current_square == find_piece(self)
        row == Row(current_square)
        col == Col(current_square)
        row_dir == IF pieces[self].player = WHITE THEN 1 ELSE -1
        fwd == At(row + row_dir, col)
        right == At(row + row_dir, col + 1)
        left == At(row + row_dir, col - 1)
        two == At(row + 2 * row_dir, col)
    IN  IF inside_board(fwd) /\ get_piece(fwd) = None
        THEN <<fwd>>
             \o (IF inside_board(right) /\ is_enemy(self, right) THEN <<right>> ELSE <<>>)
             \o (IF inside_board(left) /\ is_enemy(self, left) THEN <<left>> ELSE <<>>)
             \o (IF pieces[self].has_moved = FALSE
                 THEN IF inside_board(two) /\ get_piece(two) = None THEN <<two>> ELSE <<>>
                 ELSE <<>>)
        ELSE <<>>

(***************************** Knight **************************************)
Knight_x == <<-2, -2, -1, -1, 1, 1, 2, 2>>
Knight_y == <<1, -1, 2, -2, 2, -2, -1, 1>>

\* the loop over the offsets, from the i-th on
RECURSIVE Knight_loop(_, _, _, _)
Knight_loop(self, row, col, i) ==
    IF i > Len(Knight_x) THEN <<>>
    ELSE LET sq == At(row + Knight_x[i], col + Knight_y[i])
         IN  (IF can_move(self, sq) THEN <<sq>> ELSE <<>>)
             \o Knight_loop(self, row, col, i + 1)

Knight_get_available_moves(self) ==
    LET current_square == find_piece(self)
    IN  Knight_loop(self, Row(current_square), Col(current_square), 1)

(***************************** Bishop, Rook ********************************)
Bishop_get_available_moves(self) == <<>>

Rook_get_available_moves(self) == <<>>

(***************************** Queen ***************************************)
\* The eight scans of Queen.get_available_moves, in the order of the code:
\* 1 row up, 2 row down, 3 col up, 4 col down, 5 (+,+), 6 (+,-), 7 (-,+), 8 (-,-)
Queen_step(d) ==
    CASE d = 1 -> <<1, 0>>
      [] d = 2 -> <<-1, 0>>
      [] d = 3 -> <<0, 1>>
      [] d = 4 -> <<0, -1>>
      [] d = 5 -> <<1, 1>>
      [] d = 6 -> <<1, -1>>
      [] d = 7 -> <<-1, 1>>
      [] d = 8 -> <<-1, -1>>

\* mutant: the diagonal loops bound the row only
Queen_cond_rows_only(d, i, j) ==
    CASE d = 1 -> i < board_size
      [] d = 2 -> i >= 0
      [] d = 3 -> j < board_size
      [] d = 4 -> j >= 0
      [] d = 5 -> i < board_size
      [] d = 6 -> i < board_size
      [] d = 7 -> i >= 0
      [] d = 8 -> i >= 0

\* the condition under which the d-th loop runs its body at (i, j)
Queen_cond(d, i, j) ==
    CASE d = 1 -> i < board_size
      [] d = 2 -> i >= 0
      [] d = 3 -> j < board_size
      [] d = 4 -> j >= 0
      [] d = 5 -> i < board_size /\ j < board_size
      [] d = 6 -> i < board_size /\ j >= 0
      [] d = 7 -> i >= 0 /\ j < board_size
      [] d = 8 -> i >= 0 /\ j >= 0

\* mutant: the scan does not stop at an enemy piece
RECURSIVE Queen_scan_no_break(_, _, _, _)
Queen_scan_no_break(self, d, i, j) ==
    IF ~Queen_cond(d, i, j) THEN <<>>
    ELSE LET sq == At(i, j)
             rest == Queen_scan_no_break(self, d, i + Queen_step(d)[1], j + Queen_step(d)[2])
         IN  IF get_piece(sq) = None THEN <<sq>> \o rest
             ELSE IF is_enemy(self, sq) THEN <<sq>> \o rest ELSE <<>>

\* the d-th loop, from (i, j) on
RECURSIVE Queen_scan(_, _, _, _)
Queen_scan(self, d, i, j) ==
    IF ~Queen_cond(d, i, j) THEN <<>>
    ELSE LET sq == At(i, j)
         IN  IF get_piece(sq) = None
             THEN <<sq>> \o Queen_scan(self, d, i + Queen_step(d)[1], j + Queen_step(d)[2])
             ELSE IF is_enemy(self, sq) THEN <<sq>> ELSE <<>>

RECURSIVE Queen_scans(_, _, _, _)
Queen_scans(self, row, col, d) ==
    IF d > 8 THEN <<>>
    ELSE Queen_scan(self, d, row + Queen_step(d)[1], col + Queen_step(d)[2])
         \o Queen_scans(self, row, col, d + 1)

Queen_get_available_moves(self) ==
    LET current_square == find_piece(self)
    IN  Queen_scans(self, Row(current_square), Col(current_square), 1)

(***************************** King ****************************************)
King_change == <<-1, 0, 1>>

\* the nested loops over row_change and col_change, from the (a, b)-th pair on
RECURSIVE King_loop(_, _, _, _, _)
King_loop(self, row, col, a, b) ==
    IF a > Len(King_change) THEN <<>>
    ELSE IF b > Len(King_change) THEN King_loop(self, row, col, a + 1, 1)
    ELSE LET sq == At(row + King_change[a], col + King_change[b])
         IN  (IF can_move(self, sq) THEN <<sq>> ELSE <<>>)
             \o King_loop(self, row, col, a, b + 1)

King_get_available_moves(self) ==
    LET current_square == find_piece(self)
    IN  King_loop(self, Row(current_square), Col(current_square), 1, 1)

(***************************** calls of board.get_piece ********************)
\* The squares each method passes to board.get_piece, in the order of the
\* calls; Python's "and" and "or" evaluate their right side only when needed.
is_enemy_lookups(self, square) ==
    <<square>> \o (IF get_piece(square) # None THEN <<square>> ELSE <<>>)

can_move_lookups(self, sq) ==
    IF inside_board(sq)
    THEN <<sq>> \o (IF get_piece(sq) = None THEN <<>> ELSE is_enemy_lookups(self, sq))
    ELSE <<>>

Pawn_lookups(self) ==
    LET current_square == find_piece(self)
        row == Row(current_square)
        col == Col(current_square)
        row_dir == IF pieces[self].player = WHITE THEN 1 ELSE -1
        fwd == At(row + row_dir, col)
        right == At(row + row_dir, col + 1)
        left == At(row + row_dir, col - 1)
        two == At(row + 2 * row_dir, col)
    IN  IF inside_board(fwd)
        THEN <<fwd>>
             \o (IF get_piece(fwd) = None
                 THEN (IF inside_board(right) THEN is_enemy_lookups(self, right) ELSE <<>>)
                      \o (IF inside_board(left) THEN is_enemy_lookups(self, left) ELSE <<>>)
                      \o (IF pieces[self].has_moved = FALSE /\ inside_board(two)
                          THEN <<two>> ELSE <<>>)
                 ELSE <<>>)
        ELSE <<>>

RECURSIVE Knight_loop_lookups(_, _, _, _)
Knight_loop_lookups(self, row, col, i) ==
    IF i > Len(Knight_x) THEN <<>>
    ELSE can_move_lookups(self, At(row + Knight_x[i], col + Knight_y[i]))
         \o Knight_loop_lookups(self, row, col, i + 1)

RECURSIVE Queen_scan_lookups(_, _, _, _)
Queen_scan_lookups(self, d, i, j) ==
    IF ~Queen_cond(d, i, j) THEN <<>>
    ELSE LET sq == At(i, j)
         IN  IF get_piece(sq) = None
             THEN <<sq>> \o Queen_scan_lookups(self, d, i + Queen_step(d)[1],
                                               j + Queen_step(d)[2])
             ELSE <<sq>> \o is_enemy_lookups(self, sq)

RECURSIVE Queen_scans_lookups(_, _, _, _)
Queen_scans_lookups(self, row, col, d) ==
    IF d > 8 THEN <<>>
    ELSE Queen_scan_lookups(self, d, row + Queen_step(d)[1], col + Queen_step(d)[2])
         \o Queen_scans_lookups(self, row, col, d + 1)

RECURSIVE King_loop_lookups(_, _, _, _, _)
King_loop_lookups(self, row, col, a, b) ==
    IF a > Len(King_change) THEN <<>>
    ELSE IF b > Len(King_change) THEN King_loop_lookups(self, row, col, a + 1, 1)
    ELSE can_move_lookups(self, At(row + King_change[a], col + King_change[b]))
         \o King_loop_lookups(self, row, col, a, b + 1)

\* piece.get_available_moves(board): the lookups of the method of the piece's class
get_available_moves_lookups(self) ==
    LET current_square == find_piece(self)
        row == Row(current_square)
        col == Col(current_square)
    IN  CASE pieces[self].kind = "Pawn" -> Pawn_lookups(self)
          [] pieces[self].kind = "Knight" -> Knight_loop_lookups(self, row, col, 1)
          [] pieces[self].kind = "Bishop" -> <<>>
          [] pieces[self].kind = "Rook" -> <<>>
          [] pieces[self].kind = "Queen" -> Queen_scans_lookups(self, row, col, 1)
          [] pieces[self].kind = "King" -> King_loop_lookups(self, row, col, 1, 1)

(***************************** dispatch, move_to ***************************)
\* piece.get_available_moves(board): the method of the piece's class
get_available_moves(self) ==
    CASE pieces[self].kind = "Pawn" -> Pawn_get_available_moves(self)
      [] pieces[self].kind = "Knight" -> Knight_get_available_moves(self)
      [] pieces[self].kind = "Bishop" -> Bishop_get_available_moves(self)
      [] pieces[self].kind = "Rook" -> Rook_get_available_moves(self)
      [] pieces[self].kind = "Queen" -> Queen_get_available_moves(self)
      [] pieces[self].kind = "King" -> King_get_available_moves(self)

\* mutant: has_moved is not set
move_to_keeps_flag(self, new_square) ==
    LET current_square == find_piece(self)
    IN  [board |-> move_piece(current_square, new_square), pieces |-> pieces]

\* mutant: has_moved is flipped instead of set
move_to_toggles_flag(self, new_square) ==
    LET current_square == find_piece(self)
    IN  [board |-> move_piece(current_square, new_square),
         pieces |-> [pieces EXCEPT ![self].has_moved = ~pieces[self].has_moved]]

\* piece.move_to(board, new_square): the board and the pieces after the call
move_to(self, new_square) ==
    LET current_square == find_piece(self)
    IN  [board |-> move_piece(current_square, new_square),
         pieces |-> [pieces EXCEPT ![self].has_moved = TRUE]]

(***************************** the scenario ********************************)
\* the piece the scenario queries and moves: the first one constructed
Subject == 1

Placed == {board[sq] : sq \in DOMAIN board} \ {None}

\* row-major order of the squares
Before(sq1, sq2) == Row(sq1) < Row(sq2) \/ (Row(sq1) = Row(sq2) /\ Col(sq1) < Col(sq2))

NoCall == [name |-> "none", self |-> None, square |-> At(0, 0)]

Init ==
    /\ board_size \in BoardSizes
    /\ board = [sq \in SquaresOf(board_size) |-> None]
    /\ pieces = <<>>
    /\ op = NoCall
    /\ ret = <<>>
    /\ lookups = <<>>

\* Arrange: piece = Kind(player); board.set_piece(square, piece)
PlaceSubject(kind, player, square) ==
    /\ pieces = <<>>
    /\ pieces' = <<NewPiece(kind, player)>>
    /\ board' = set_piece(square, Subject)
    /\ op' = [name |-> "set_piece", self |-> Subject, square |-> square]
    /\ ret' = <<>>
    /\ lookups' = <<>>
    /\ UNCHANGED board_size

\* Arrange: obstruction = Pawn(player); board.set_piece(square, obstruction).
\* Obstructions go on the small board, onto empty squares, in row-major order.
PlaceObstruction(player, square) ==
    /\ pieces # <<>>
    /\ board_size < StdSize
    /\ Len(pieces) <= MaxObstructions
    /\ board[square] = None
    /\ \A sq \in DOMAIN board : board[sq] \notin {None, Subject} => Before(sq, square)
    /\ pieces' = Append(pieces, NewPiece("Pawn", player))
    /\ board' = set_piece(square, Len(pieces) + 1)
    /\ op' = [name |-> "set_piece", self |-> Len(pieces) + 1, square |-> square]
    /\ ret' = <<>>
    /\ lookups' = <<>>
    /\ UNCHANGED board_size

\* Act: moves = piece.get_available_moves(board)
GetAvailableMoves ==
    /\ Subject \in Placed
    /\ ret' = get_available_moves(Subject)
    /\ lookups' = get_available_moves_lookups(Subject)
    /\ op' = [name |-> "get_available_moves", self |-> Subject, square |-> find_piece(Subject)]
    /\ UNCHANGED <<board_size, board, pieces>>

\* Act: piece.move_to(board, new_square), for any square of the board
MoveTo(new_square) ==
    /\ Subject \in Placed
    /\ board' = move_to(Subject, new_square).board
    /\ pieces' = move_to(Subject, new_square).pieces
    /\ op' = [name |-> "move_to", self |-> Subject, square |-> new_square]
    /\ ret' = <<>>
    /\ lookups' = <<>>
    /\ UNCHANGED board_size

Next ==
    \/ \E kind \in Kinds, player \in Player, square \in DOMAIN board :
          PlaceSubject(kind, player, square)
    \/ \E player \in Player, square \in DOMAIN board : PlaceObstruction(player, square)
    \/ GetAvailableMoves
    \/ \E new_square \in DOMAIN board : MoveTo(new_square)

Spec == Init /\ [][Next]_vars

\* the type of the state
TypeOK ==
    /\ board_size \in BoardSizes
    /\ DOMAIN board = SquaresOf(board_size)
    /\ \A sq \in DOMAIN board : board[sq] \in 0 .. Len(pieces)
    /\ op.name \in {"none", "set_piece", "get_available_moves", "move_to"}

(***************************** vocabulary of the claims ********************)
\* the last call was get_available_moves; board and pieces are as it saw them
Queried == op.name = "get_available_moves"
QueriedKind(kind) == Queried /\ pieces[op.self].kind = kind

\* the squares returned
RetSet == {ret[i] : i \in 1 .. Len(ret)}

OnBoard(sq) == sq \in DOMAIN board
Empty(sq) == OnBoard(sq) /\ board[sq] = None
Occupied(sq) == OnBoard(sq) /\ board[sq] # None
Friendly(sq) == Occupied(sq) /\ pieces[board[sq]].player = pieces[op.self].player
Enemy(sq) == Occupied(sq) /\ pieces[board[sq]].player # pieces[op.self].player

\* the square k steps from sq in direction d
Off(sq, d, k) == At(Row(sq) + k * d[1], Col(sq) + k * d[2])

Orthogonal == {<<1, 0>>, <<-1, 0>>, <<0, 1>>, <<0, -1>>}
Diagonal == {<<1, 1>>, <<1, -1>>, <<-1, 1>>, <<-1, -1>>}

\* the squares a slide from sq along the directions dirs reaches: every square
\* before it on the ray is empty, and it is empty or holds an enemy
SlideSet(sq, dirs) ==
    {t \in DOMAIN board :
        \E d \in dirs, k \in 1 .. board_size :
            /\ t = Off(sq, d, k)
            /\ \A j \in 1 .. k - 1 : Empty(Off(sq, d, j))
            /\ (Empty(t) \/ Enemy(t))}

\* only the queried piece stands on the board
Alone == \A sq \in DOMAIN board : sq # op.square => board[sq] = None

(***************************** C1 ******************************************)
\* C1: every square get_available_moves returns, for any kind, player,
\* position and occupancy, has 0 <= row < board_size and 0 <= col < board_size.
C1_InsideBoard ==
    Queried =>
        \A i \in 1 .. Len(ret) :
            /\ 0 <= Row(ret[i]) /\ Row(ret[i]) < board_size
            /\ 0 <= Col(ret[i]) /\ Col(ret[i]) < board_size

\* a piece in a corner, some of whose candidates are off-board, returns moves
C1_Witness ==
    /\ QueriedKind("King")
    /\ op.square = At(board_size - 1, 0)
    /\ ret # <<>>

(***************************** C2 ******************************************)
\* C2: no square get_available_moves returns holds a piece of the acting
\* piece's player, and the piece's own square is never returned.
C2_NoFriendly ==
    Queried =>
        /\ \A i \in 1 .. Len(ret) : ~Friendly(ret[i])
        /\ op.square \notin RetSet

\* a king next to a friendly piece has been asked for its moves
C2_Witness ==
    /\ QueriedKind("King")
    /\ \E d \in Orthogonal \cup Diagonal : Friendly(Off(op.square, d, 1))
    /\ ret # <<>>

(***************************** C3 ******************************************)
\* C3: a queen's moves are exactly the squares of the eight slides: the empty
\* squares up to the first occupied one, and that one iff it holds an enemy.
C3_QueenExact ==
    QueriedKind("Queen") => RetSet = SlideSet(op.square, Orthogonal \cup Diagonal)

\* a queen with an enemy in one direction, a square behind that enemy, and a
\* friendly piece in another direction
C3_Witness ==
    /\ QueriedKind("Queen")
    /\ \E d \in Orthogonal \cup Diagonal :
          Enemy(Off(op.square, d, 1)) /\ OnBoard(Off(op.square, d, 2))
    /\ \E d \in Orthogonal \cup Diagonal : Friendly(Off(op.square, d, 1))

(***************************** C4 ******************************************)
\* C4: a rook's moves are exactly the squares of the four orthogonal slides
\* and a bishop's exactly those of the four diagonal slides.
C4_RookBishopScan ==
    /\ QueriedKind("Rook") => RetSet = SlideSet(op.square, Orthogonal)
    /\ QueriedKind("Bishop") => RetSet = SlideSet(op.square, Diagonal)

(***************************** C5 ******************************************)
\* the pawn's direction and its squares
ForwardDir == IF pieces[op.self].player = WHITE THEN 1 ELSE -1
Forward == At(Row(op.square) + ForwardDir, Col(op.square))
TwoForward == At(Row(op.square) + 2 * ForwardDir, Col(op.square))
ForwardDiagonals ==
    {At(Row(op.square) + ForwardDir, Col(op.square) + 1),
     At(Row(op.square) + ForwardDir, Col(op.square) - 1)}

\* C5: a pawn's forward-diagonal square is returned if and only if it is
\* on-board and holds an enemy piece.
C5_PawnDiagonalIff ==
    QueriedKind("Pawn") => \A t \in ForwardDiagonals : t \in RetSet <=> Enemy(t)

(***************************** C6 ******************************************)
\* C6: a pawn whose one-step-forward square is off-board or occupied has no
\* moves, whatever has_moved is and whatever stands on the other squares.
C6_BlockedPawnNoMoves ==
    QueriedKind("Pawn") /\ ~Empty(Forward) => ret = <<>>

\* a pawn blocked in front with an enemy on a forward diagonal
C6_Witness ==
    /\ QueriedKind("Pawn")
    /\ Occupied(Forward)
    /\ \E t \in ForwardDiagonals : Enemy(t)

(***************************** C7 ******************************************)
\* C7: the one-step square is returned iff on-board and empty; the two-step
\* square iff the pawn has not moved and both squares are on-board and empty;
\* no other square of the pawn's column is returned.
C7_PawnForward ==
    QueriedKind("Pawn") =>
        /\ Forward \in RetSet <=> Empty(Forward)
        /\ TwoForward \in RetSet <=>
              (~pieces[op.self].has_moved /\ Empty(Forward) /\ Empty(TwoForward))
        /\ \A t \in RetSet : Col(t) = Col(op.square) => t \in {Forward, TwoForward}

\* a moved pawn with two empty squares ahead has been asked for its moves
C7_Witness ==
    /\ QueriedKind("Pawn")
    /\ pieces[op.self].has_moved
    /\ Empty(Forward) /\ Empty(TwoForward)

(***************************** C8 ******************************************)
KnightOffsets ==
    {<<1, 2>>, <<1, -2>>, <<-1, 2>>, <<-1, -2>>, <<2, 1>>, <<2, -1>>, <<-2, 1>>, <<-2, -1>>}

\* C8: a knight's moves are exactly the squares at the eight knight offsets
\* that are on-board and empty or enemy-occupied, each once; from (1,4) on an
\* otherwise empty 8 x 8 board they are (0,6),(0,2),(2,6),(2,2),(3,3),(3,5).
C8_KnightExact ==
    QueriedKind("Knight") =>
        /\ RetSet = {t \in DOMAIN board :
                        /\ \E d \in KnightOffsets : t = Off(op.square, d, 1)
                        /\ (Empty(t) \/ Enemy(t))}
        /\ Cardinality(RetSet) = Len(ret)
        /\ (board_size = 8 /\ op.square = At(1, 4) /\ Alone =>
              RetSet = {At(0, 6), At(0, 2), At(2, 6), At(2, 2), At(3, 3), At(3, 5)})

\* the knight of the tests: at (1,4), alone on the 8 x 8 board
C8_Witness ==
    /\ QueriedKind("Knight")
    /\ board_size = 8 /\ op.square = At(1, 4) /\ Alone

(***************************** C9 ******************************************)
Neighbours(sq) == {Off(sq, d, 1) : d \in Orthogonal \cup Diagonal}

Corners == {0, board_size - 1} \X {0, board_size - 1}
Interior == (1 .. board_size - 2) \X (1 .. board_size - 2)

\* C9: a king's moves are exactly its neighbours that are on-board and empty
\* or enemy-occupied: 8 from an interior square of an otherwise empty board,
\* 3 from a corner.
C9_KingExact ==
    QueriedKind("King") =>
        /\ RetSet = {t \in Neighbours(op.square) : Empty(t) \/ Enemy(t)}
        /\ (Alone /\ op.square \in Interior => Cardinality(RetSet) = 8)
        /\ (Alone /\ op.square \in Corners => Cardinality(RetSet) = 3)

\* a king alone in a corner of the 8 x 8 board
C9_Witness ==
    /\ QueriedKind("King")
    /\ board_size = StdSize /\ Alone /\ op.square \in Corners

(***************************** C10 *****************************************)
\* the step is a call of move_to
MoveToCalled == op'.name = "move_to"

\* the piece, and nothing else, stands on the destination: find_piece gives it
StandsOn(piece, destination) ==
    \A sq \in DOMAIN board' : board'[sq] = piece <=> sq = destination

\* the piece that stood on the destination stands nowhere
OccupantGone(destination) ==
    board[destination] # None =>
        \A sq \in DOMAIN board' : board'[sq] # board[destination]

\* every square but the piece's old one and the destination is as it was
OthersUnchanged(from, destination) ==
    /\ DOMAIN board' = DOMAIN board
    /\ \A sq \in DOMAIN board \ {from, destination} : board'[sq] = board[sq]

\* C10 as stated: after move_to to any square of the board, has_moved is
\* true, find_piece gives the destination, the previous square is empty, the
\* destination's prior occupant is gone and every other square is unchanged.
C10_MoveToAnySquare ==
    [][MoveToCalled =>
         LET from == find_piece(op'.self)
         IN  /\ pieces'[op'.self].has_moved
             /\ StandsOn(op'.self, op'.square)
             /\ board'[from] = None
             /\ OccupantGone(op'.square)
             /\ OthersUnchanged(from, op'.square)]_vars

\* C10: after move_to to any square of the board has_moved is true; when the
\* square is not the piece's current one, find_piece gives the destination,
\* the previous square is empty, the destination's prior occupant is gone and
\* every other square is unchanged.
C10_MoveTo ==
    [][MoveToCalled =>
         LET from == find_piece(op'.self)
         IN  /\ pieces'[op'.self].has_moved
             /\ op'.square # from =>
                   /\ StandsOn(op'.self, op'.square)
                   /\ board'[from] = None
                   /\ OccupantGone(op'.square)
                   /\ OthersUnchanged(from, op'.square)]_vars

\* a white pawn has been moved onto the bottom row, which no pawn move reaches,
\* and a piece has been taken off the board
C10_Witness ==
    /\ op.name = "move_to"
    /\ pieces[op.self].kind = "Pawn" /\ pieces[op.self].player = WHITE
    /\ Row(op.square) = 0 /\ board[op.square] = op.self
    /\ Len(pieces) > Cardinality(Placed)

(***************************** C11 *****************************************)
\* a moved pawn that is asked for its moves does not return the square two
\* rows ahead
NoDoubleStepOnceMoved ==
    QueriedKind("Pawn") /\ pieces[op.self].has_moved => TwoForward \notin RetSet

\* C11: has_moved is false when a piece is constructed, becomes true only by
\* a move_to of that piece, is true after every move_to of it, never reverts
\* and is not changed by get_available_moves; a pawn that has been moved is
\* never again offered the square two rows ahead.
C11_HasMovedOneWay ==
    [][/\ \A p \in DOMAIN pieces' \ DOMAIN pieces : ~pieces'[p].has_moved
       /\ \A p \in DOMAIN pieces :
             /\ pieces[p].has_moved => pieces'[p].has_moved
             /\ ~pieces[p].has_moved /\ pieces'[p].has_moved =>
                   op'.name = "move_to" /\ op'.self = p
             /\ op'.name = "move_to" /\ op'.self = p => pieces'[p].has_moved
             /\ op'.name = "get_available_moves" =>
                   pieces'[p].has_moved = pieces[p].has_moved
       /\ NoDoubleStepOnceMoved']_vars

\* the pawn of the tests: moved from (1,4) to (2,4) on the 8 x 8 board, then
\* asked for its moves, it is offered (3,4) alone
C11_Witness ==
    /\ QueriedKind("Pawn") /\ pieces[op.self].player = WHITE
    /\ pieces[op.self].has_moved
    /\ board_size = StdSize /\ op.square = At(2, 4)
    /\ ret = <<At(3, 4)>>

(***************************** C12 *****************************************)
\* C12: every square get_available_moves passes to board.get_piece, for any
\* kind, position and occupancy, has 0 <= row < board_size and
\* 0 <= col < board_size.
C12_LookupsInsideBoard ==
    Queried =>
        \A i \in 1 .. Len(lookups) :
            /\ 0 <= Row(lookups[i]) /\ Row(lookups[i]) < board_size
            /\ 0 <= Col(lookups[i]) /\ Col(lookups[i]) < board_size

\* a pawn with an empty square ahead, one forward diagonal off the board and
\* an enemy on the other, on which is_enemy consulted the board
C12_Witness ==
    /\ QueriedKind("Pawn")
    /\ Empty(Forward)
    /\ \E t \in ForwardDiagonals : ~OnBoard(t)
    /\ \E t \in ForwardDiagonals :
          Enemy(t) /\ \E i \in 1 .. Len(lookups) : lookups[i] = t

====
